---- MODULE Spec2Model ----
(***************************************************************************)
(* A model of the ICMP socket crate: the public facade IcmpSocket          *)
(* (src/src/socket.rs) over the platform socket (sys::Socket), the timeout *)
(* helpers (compat::set_timeout, compat::timeout) and the operating        *)
(* system's socket table.  The facade is translated from socket.rs; the    *)
(* platform socket, the timeout helpers and the OS are not part of the     *)
(* sources at hand and follow the design document (sections 3, 4.1, 4.2,   *)
(* 5 and 7).                                                               *)
(***************************************************************************)
EXTENDS Integers, FiniteSets, Sequences, TLC

VARIABLES socks, os, thr, last

vars == <<socks, os, thr, last>>

(***************************************************************************)
(* Bounds of the model.                                                    *)
(***************************************************************************)
MaxHandles == 2
MaxSecs == 1
MaxLen == 2

Sockets == {1, 2}
Fds == 1..MaxHandles
Threads == {"t1", "t2"}

(***************************************************************************)
(* Values.  Option<T> is a set with at most one element; Result<T> is a     *)
(* record whose second field is named after T.                             *)
(***************************************************************************)
None == {}
Some(v) == {v}
OkUnit == [ok |-> TRUE]
OkCount(n) == [ok |-> TRUE, n |-> n]
OkTimeout(opt) == [ok |-> TRUE, dur |-> opt]
OkTtl(v) == [ok |-> TRUE, ttl |-> v]
OkBool(b) == [ok |-> TRUE, on |-> b]
OkSocket(sock) == [ok |-> TRUE, inner |-> sock]
OkIcmpSocket(x) == [ok |-> TRUE, sock |-> x]
Err(e) == [ok |-> FALSE, e |-> e]
NoArg == [none |-> TRUE]

NoSock == [live |-> FALSE]

\* std::net::IpAddr: the destinations the model connects to.
Addrs == {"127.0.0.1", "::1"}
family_of(addr) == IF addr = "127.0.0.1" THEN "AF_INET" ELSE "AF_INET6"

\* std::time::Duration: whole seconds and the sub-second part in nanoseconds.
NanosPerMicro == 1000
SubNanos == {0, 500, 1000, 1500}
Durations == [secs : 0..MaxSecs, nanos : SubNanos]
ZeroDuration == [secs |-> 0, nanos |-> 0]
Timeouts == {None} \cup {Some(d) : d \in Durations}

\* u32 arguments of set_ttl, some of them beyond the 0..MaxTtl the option takes.
MaxTtl == 255
DefaultTtl == 64
TtlInputs == {0, MaxTtl, MaxTtl + 1, (MaxTtl + 1) * (MaxTtl + 1)}

SO_RCVTIMEO == "SO_RCVTIMEO"
SO_SNDTIMEO == "SO_SNDTIMEO"

(***************************************************************************)
(* The operating system's socket table.  A handle is used at most once:    *)
(* "unused", then "open", then "closed".                                   *)
(***************************************************************************)
NoTimeval == [tv_sec |-> 0, tv_usec |-> 0]

UnusedFd ==
    [st |-> "unused", peer |-> "", family |-> "", rcvtimeo |-> NoTimeval,
     sndtimeo |-> NoTimeval, ttl |-> DefaultTtl, broadcast |-> 0, closes |-> 0]

OpenFd(addr) == [UnusedFd EXCEPT !.st = "open", !.peer = addr, !.family = family_of(addr)]

setsockopt(table, fd, opt, val) ==
    CASE opt = SO_RCVTIMEO -> [table EXCEPT ![fd].rcvtimeo = val]
      [] opt = SO_SNDTIMEO -> [table EXCEPT ![fd].sndtimeo = val]
      [] opt = "IP_TTL" -> [table EXCEPT ![fd].ttl = val]
      [] opt = "SO_BROADCAST" -> [table EXCEPT ![fd].broadcast = val]

getsockopt(table, fd, opt) ==
    CASE opt = SO_RCVTIMEO -> table[fd].rcvtimeo
      [] opt = SO_SNDTIMEO -> table[fd].sndtimeo
      [] opt = "IP_TTL" -> table[fd].ttl
      [] opt = "SO_BROADCAST" -> table[fd].broadcast

(***************************************************************************)
(* compat: the timeout helpers.                                            *)
(***************************************************************************)
\* Duration -> timeval: seconds and the sub-second remainder in microseconds.
\* An accepted duration is not zero and is never encoded as the all-zero
\* timeval, which the OS reads as "no timeout".
to_timeval(d) ==
    LET usec == d.nanos \div NanosPerMicro
    IN  IF d.secs = 0 /\ usec = 0
        THEN [tv_sec |-> 0, tv_usec |-> 1]
        ELSE [tv_sec |-> d.secs, tv_usec |-> usec]

from_timeval(tv) == [secs |-> tv.tv_sec, nanos |-> tv.tv_usec * NanosPerMicro]

\* set_timeout(socket, dur, kind): the result and the socket table after it.
set_timeout(sock, dur, kind) ==
    IF dur = None
    THEN [res |-> OkUnit, os |-> setsockopt(os, sock.fd, kind, NoTimeval)]
    ELSE LET d == CHOOSE x \in dur : TRUE
         IN  IF d = ZeroDuration
             THEN [res |-> Err("InvalidInput"), os |-> os]
             ELSE [res |-> OkUnit, os |-> setsockopt(os, sock.fd, kind, to_timeval(d))]

\* timeout(socket, kind): the all-zero timeval reads as None.
timeout(sock, kind) ==
    LET raw == getsockopt(os, sock.fd, kind)
    IN  IF raw = NoTimeval THEN OkTimeout(None) ELSE OkTimeout(Some(from_timeval(raw)))

(***************************************************************************)
(* sys::Socket: the platform socket's option accessors.                    *)
(***************************************************************************)
Socket_set_ttl(sock, ttl) ==
    IF ttl \in 0..MaxTtl
    THEN [res |-> OkUnit, os |-> setsockopt(os, sock.fd, "IP_TTL", ttl)]
    ELSE [res |-> Err("InvalidInput"), os |-> os]

Socket_ttl(sock) == OkTtl(getsockopt(os, sock.fd, "IP_TTL"))

Socket_set_broadcast(sock, b) ==
    [res |-> OkUnit, os |-> setsockopt(os, sock.fd, "SO_BROADCAST", IF b THEN 1 ELSE 0)]

Socket_broadcast(sock) == OkBool(getsockopt(os, sock.fd, "SO_BROADCAST") # 0)

(***************************************************************************)
(* sys::Socket: creation, release and data transfer.  What the OS answers  *)
(* is the environment's choice.                                            *)
(***************************************************************************)
ConnectOutcomes == {"ok", "PermissionDenied", "Unsupported"}

fresh_fd == CHOOSE fd \in Fds : os[fd].st = "unused" /\ \A g \in Fds : os[g].st = "unused" => fd <= g

\* Socket::connect(addr): a raw socket of the address's family, or the OS's error.
Socket_connect(addr, outcome) ==
    IF outcome = "ok"
    THEN [res |-> OkSocket([fd |-> fresh_fd, family |-> family_of(addr)]),
          os |-> [os EXCEPT ![fresh_fd] = OpenFd(addr)]]
    ELSE [res |-> Err(outcome), os |-> os]

\* Dropping the Socket closes its handle.
Socket_drop(sock) ==
    [os EXCEPT ![sock.fd] = [UnusedFd EXCEPT !.st = "closed", !.closes = os[sock.fd].closes + 1]]

\* A blocking call arms a timer when the direction's timeout is set.
timer_armed(sock, kind) == getsockopt(os, sock.fd, kind) # NoTimeval

\* What one transport write of len bytes can report.
WriteReports(len, armed) ==
    {OkCount(n) : n \in 0..len} \cup {Err("Io")} \cup (IF armed THEN {Err("WouldBlock")} ELSE {})

(***************************************************************************)
(* Access to an IcmpSocket value: recv and the option calls take &self,    *)
(* send takes &mut self, and dropping it takes the value itself.           *)
(***************************************************************************)
Idle == [pc |-> "idle", s |-> 0, len |-> 0, armed |-> FALSE, calls |-> 0]

live(s) == socks[s].live

in_call(t, s) == thr[t].pc # "idle" /\ thr[t].s = s

shared_borrow(s) == \A t \in Threads : ~(thr[t].pc = "send" /\ thr[t].s = s)

exclusive_borrow(s) == \A t \in Threads : ~in_call(t, s)

(***************************************************************************)
(* IcmpSocket: the facade.                                                 *)
(***************************************************************************)
as_inner(s) == socks[s].inner

\* Faulty variant: a placeholder socket when the platform socket failed.
connect_or_placeholder(r) ==
    OkIcmpSocket([live |-> TRUE,
                  inner |-> IF r.ok THEN r.inner ELSE [fd |-> 0, family |-> "AF_INET"]])

\* connect: `let inner = Socket::connect(addr)?; Ok(IcmpSocket { inner })`.
connect(r) == IF r.ok THEN OkIcmpSocket([live |-> TRUE, inner |-> r.inner]) ELSE Err(r.e)

\* Faulty variant: when the inner recv times out, recv again.
recv_again_on_timeout(t, rep) ==
    IF rep = Err("WouldBlock")
    THEN [thr |-> [thr EXCEPT ![t].calls = 2], res |-> rep, calls |-> 2]
    ELSE [thr |-> [thr EXCEPT ![t] = Idle], res |-> rep, calls |-> thr[t].calls]

\* recv: one inner recv, whose result is the result; the thread leaves the call.
recv(t, rep) == [thr |-> [thr EXCEPT ![t] = Idle], res |-> rep, calls |-> thr[t].calls]

\* Faulty variant: send through `&self`.
send_borrow_shared(s) == shared_borrow(s)

\* The receiver of send: `&mut self`.
send_borrow(s) == exclusive_borrow(s)

\* Faulty variant: a short write is followed by a second write of the rest.
send_rest_after_short_write(t, rep) ==
    IF rep.ok /\ rep.n < thr[t].len
    THEN [thr |-> [thr EXCEPT ![t] = Idle], res |-> OkCount(thr[t].len), calls |-> 2]
    ELSE [thr |-> [thr EXCEPT ![t] = Idle], res |-> rep, calls |-> thr[t].calls]

\* send: one inner send, whose result is the result; the thread leaves the call.
send(t, rep) == [thr |-> [thr EXCEPT ![t] = Idle], res |-> rep, calls |-> thr[t].calls]

\* Faulty variants of the option setters.
set_read_timeout_zero_as_none(s, dur) ==
    set_timeout(as_inner(s), IF dur = Some(ZeroDuration) THEN None ELSE dur, SO_RCVTIMEO)

set_read_timeout_wrong_kind(s, dur) == set_timeout(as_inner(s), dur, SO_SNDTIMEO)

set_write_timeout_wrong_kind(s, dur) == set_timeout(as_inner(s), dur, SO_RCVTIMEO)

set_ttl_as_u8(s, v) == Socket_set_ttl(as_inner(s), v % (MaxTtl + 1))

set_broadcast_always(s, b) == Socket_set_broadcast(as_inner(s), TRUE)

set_read_timeout(s, dur) == set_timeout(as_inner(s), dur, SO_RCVTIMEO)

set_write_timeout(s, dur) == set_timeout(as_inner(s), dur, SO_SNDTIMEO)

read_timeout(s) == timeout(as_inner(s), SO_RCVTIMEO)

write_timeout(s) == timeout(as_inner(s), SO_SNDTIMEO)

set_ttl(s, ttl) == Socket_set_ttl(as_inner(s), ttl)

ttl(s) == Socket_ttl(as_inner(s))

set_broadcast(s, b) == Socket_set_broadcast(as_inner(s), b)

broadcast(s) == Socket_broadcast(as_inner(s))

\* Faulty variant: the Socket is forgotten, not dropped.
drop_forgets_inner(s) == os

\* The IcmpSocket owns its Socket: dropping the one drops the other.
drop(s) == Socket_drop(as_inner(s))

(***************************************************************************)
(* The calls.                                                              *)
(***************************************************************************)
Called(op, s, arg, res) ==
    [op |-> op, s |-> s, arg |-> arg, res |-> res, rep |-> res, calls |-> 1]

CallConnect(t, s, addr) ==
    /\ thr[t].pc = "idle"
    /\ ~live(s)
    /\ \E outcome \in ConnectOutcomes :
         /\ outcome = "ok" => \E fd \in Fds : os[fd].st = "unused"
         /\ LET r == Socket_connect(addr, outcome)
                res == connect(r.res)
            IN  /\ os' = r.os
                /\ socks' = [socks EXCEPT ![s] = IF res.ok THEN res.sock ELSE NoSock]
                /\ last' = [op |-> "connect", s |-> s, arg |-> [addr |-> addr], res |-> res,
                            rep |-> r.res, calls |-> 1]
    /\ UNCHANGED thr

CallDrop(t, s) ==
    /\ thr[t].pc = "idle"
    /\ live(s)
    /\ exclusive_borrow(s)
    /\ os' = drop(s)
    /\ socks' = [socks EXCEPT ![s] = NoSock]
    /\ last' = Called("drop", s, NoArg, OkUnit)
    /\ UNCHANGED thr

CallRecv(t, s) ==
    /\ thr[t].pc = "idle"
    /\ live(s)
    /\ shared_borrow(s)
    /\ thr' = [thr EXCEPT ![t] = [pc |-> "recv", s |-> s, len |-> MaxLen,
                                  armed |-> timer_armed(as_inner(s), SO_RCVTIMEO),
                                  calls |-> 1]]
    /\ UNCHANGED <<socks, os, last>>

\* The OS reports rep to the inner call and the facade call op returns r.
Returns(t, op, arg, rep, r) ==
    /\ thr' = r.thr
    /\ last' = [op |-> op, s |-> thr[t].s, arg |-> arg, res |-> r.res, rep |-> rep,
                calls |-> r.calls]
    /\ UNCHANGED <<socks, os>>

RecvData(t) ==
    /\ thr[t].pc = "recv"
    /\ \E n \in 0..thr[t].len : Returns(t, "recv", [armed |-> thr[t].armed], OkCount(n), recv(t, OkCount(n)))

RecvError(t) ==
    /\ thr[t].pc = "recv"
    /\ Returns(t, "recv", [armed |-> thr[t].armed], Err("Io"), recv(t, Err("Io")))

RecvTimeout(t) ==
    /\ thr[t].pc = "recv"
    /\ thr[t].armed
    /\ Returns(t, "recv", [armed |-> thr[t].armed], Err("WouldBlock"), recv(t, Err("WouldBlock")))

CallSend(t, s, len) ==
    /\ thr[t].pc = "idle"
    /\ live(s)
    /\ send_borrow(s)
    /\ thr' = [thr EXCEPT ![t] = [pc |-> "send", s |-> s, len |-> len,
                                  armed |-> timer_armed(as_inner(s), SO_SNDTIMEO),
                                  calls |-> 1]]
    /\ UNCHANGED <<socks, os, last>>

SendDone(t) ==
    /\ thr[t].pc = "send"
    /\ \E rep \in WriteReports(thr[t].len, thr[t].armed) :
         Returns(t, "send", [len |-> thr[t].len], rep, send(t, rep))

Setter(t, s, op, arg, r) ==
    /\ thr[t].pc = "idle"
    /\ live(s)
    /\ shared_borrow(s)
    /\ os' = r.os
    /\ last' = Called(op, s, arg, r.res)
    /\ UNCHANGED <<socks, thr>>

Getter(t, s, op, res) ==
    /\ thr[t].pc = "idle"
    /\ live(s)
    /\ shared_borrow(s)
    /\ last' = Called(op, s, NoArg, res)
    /\ UNCHANGED <<socks, os, thr>>

CallSetReadTimeout(t, s, dur) == Setter(t, s, "set_read_timeout", [dur |-> dur], set_read_timeout(s, dur))

CallSetWriteTimeout(t, s, dur) == Setter(t, s, "set_write_timeout", [dur |-> dur], set_write_timeout(s, dur))

CallReadTimeout(t, s) == Getter(t, s, "read_timeout", read_timeout(s))

CallWriteTimeout(t, s) == Getter(t, s, "write_timeout", write_timeout(s))

CallSetTtl(t, s, v) == Setter(t, s, "set_ttl", [ttl |-> v], set_ttl(s, v))

CallTtl(t, s) == Getter(t, s, "ttl", ttl(s))

CallSetBroadcast(t, s, b) == Setter(t, s, "set_broadcast", [on |-> b], set_broadcast(s, b))

CallBroadcast(t, s) == Getter(t, s, "broadcast", broadcast(s))

Init ==
    /\ socks = [s \in Sockets |-> NoSock]
    /\ os = [fd \in Fds |-> UnusedFd]
    /\ thr = [t \in Threads |-> Idle]
    /\ last = Called("none", 0, NoArg, OkUnit)

\* One step of the program: a call or a return, by a thread of TT on a socket
\* of SS, with timeout arguments from TOs, TTL arguments from TTLs and payload
\* lengths from Lens.
Step(TT, SS, TOs, TTLs, Lens) ==
    \E t \in TT :
        \/ RecvData(t)
        \/ RecvError(t)
        \/ RecvTimeout(t)
        \/ SendDone(t)
        \/ \E s \in SS :
            \/ \E addr \in Addrs : CallConnect(t, s, addr)
            \/ CallDrop(t, s)
            \/ CallRecv(t, s)
            \/ \E len \in Lens : CallSend(t, s, len)
            \/ \E dur \in TOs : CallSetReadTimeout(t, s, dur)
            \/ \E dur \in TOs : CallSetWriteTimeout(t, s, dur)
            \/ CallReadTimeout(t, s)
            \/ CallWriteTimeout(t, s)
            \/ \E v \in TTLs : CallSetTtl(t, s, v)
            \/ CallTtl(t, s)
            \/ \E b \in BOOLEAN : CallSetBroadcast(t, s, b)
            \/ CallBroadcast(t, s)

\* One socket value at a time (dropped and connected again on a new handle),
\* used by one thread with every option argument and payload length.
Next == Step({"t1"}, {1}, Timeouts, TtlInputs, 0..MaxLen)

Spec == Init /\ [][Next]_vars

\* A few option arguments: a timeout set and unset, a TTL refused.
FewTimeouts == {None, Some([secs |-> MaxSecs, nanos |-> 0])}
FewTtls == {MaxTtl + 1}

\* One socket value at a time, shared by the threads, with few arguments.
NextShared == Step(Threads, {1}, FewTimeouts, FewTtls, {MaxLen})

SpecShared == Init /\ [][NextShared]_vars

\* The OS timer of a blocked recv with a timeout set eventually expires.
FairSpec == SpecShared /\ \A t \in Threads : WF_vars(RecvTimeout(t))

\* Several socket values at a time, used by one thread with few arguments.
NextPair == Step({"t1"}, Sockets, FewTimeouts, FewTtls, {MaxLen})

SpecPair == Init /\ [][NextPair]_vars

(***************************************************************************)
(* Properties.                                                             *)
(***************************************************************************)
\* A Duration cut down to whole microseconds, the unit of the OS timeout.
whole_micros(d) == [secs |-> d.secs, nanos |-> d.nanos - (d.nanos % NanosPerMicro)]
OneMicro == [secs |-> 0, nanos |-> NanosPerMicro]

the(opt) == CHOOSE x \in opt : TRUE

\* C1: set_read_timeout(Some(zero)) returns an invalid-argument error and
\* changes nothing: read_timeout() returns what it returned before (so the
\* zero duration is not stored as "no timeout"), and the socket stays
\* connected on its open handle.
C1_ZeroReadTimeoutRejected ==
    [][\A s \in Sockets :
         (last'.op = "set_read_timeout" /\ last'.s = s /\ last'.arg.dur = Some(ZeroDuration))
         => /\ last'.res = Err("InvalidInput")
            /\ read_timeout(s)' = read_timeout(s)
            /\ socks'[s] = socks[s]
            /\ live(s)'
            /\ os'[as_inner(s).fd].st = "open"]_vars

\* C1 witness: the zero duration was rejected on a socket whose read timeout is Some(d).
C1_Witness ==
    /\ last.op = "set_read_timeout"
    /\ last.arg.dur = Some(ZeroDuration)
    /\ ~last.res.ok
    /\ live(last.s)
    /\ read_timeout(last.s) # OkTimeout(None)

options(s) == [read_timeout |-> read_timeout(s), write_timeout |-> write_timeout(s),
               ttl |-> ttl(s), broadcast |-> broadcast(s)]

\* C3: set_read_timeout changes at most what read_timeout() returns and
\* set_write_timeout at most what write_timeout() returns; each leaves the
\* other direction (and the other options) as they were.
C3_TimeoutsIndependent ==
    [][\A s \in Sockets :
         /\ (last'.op = "set_read_timeout" /\ last'.s = s)
            => [options(s)' EXCEPT !.read_timeout = OkUnit] = [options(s) EXCEPT !.read_timeout = OkUnit]
         /\ (last'.op = "set_write_timeout" /\ last'.s = s)
            => [options(s)' EXCEPT !.write_timeout = OkUnit] = [options(s) EXCEPT !.write_timeout = OkUnit]]_vars

\* C3 witness: a write timeout was set and the two directions hold different timeouts.
C3_Witness ==
    /\ last.op = "set_write_timeout"
    /\ last.res.ok
    /\ read_timeout(last.s) # OkTimeout(None)
    /\ write_timeout(last.s) # OkTimeout(None)
    /\ read_timeout(last.s) # write_timeout(last.s)

\* C4: a successful set_ttl(t) with t in 0..255 makes ttl() return t; a value
\* above 255 (the argument is a u32) fails and leaves the TTL as it was.
C4_TtlRoundTrip ==
    [][\A s \in Sockets :
         (last'.op = "set_ttl" /\ last'.s = s)
         => IF last'.arg.ttl \in 0..MaxTtl
            THEN last'.res.ok => ttl(s)' = OkTtl(last'.arg.ttl)
            ELSE ~last'.res.ok /\ ttl(s)' = ttl(s)]_vars

\* C4 witness: the largest TTL was set and reads back.
C4_Witness ==
    /\ last.op = "set_ttl"
    /\ last.arg.ttl = MaxTtl
    /\ last.res.ok
    /\ ttl(last.s) = OkTtl(MaxTtl)

\* C5: after a successful set_broadcast(b), broadcast() returns b.
C5_BroadcastRoundTrip ==
    (last.op = "set_broadcast" /\ last.res.ok) => broadcast(last.s) = OkBool(last.arg.on)

\* C5 witness: broadcast was switched on, after other options were set.
C5_Witness ==
    /\ last.op = "set_broadcast"
    /\ last.arg.on
    /\ broadcast(last.s) = OkBool(TRUE)
    /\ ttl(last.s) # OkTtl(DefaultTtl)
    /\ write_timeout(last.s) # OkTimeout(None)

\* C6: send returns what its one transport write reported: the whole length
\* for a complete write (2 for a 2-byte payload to 127.0.0.1), and a short
\* count or an error as it is, after exactly one write.
C6_SendIsOneWrite ==
    last.op = "send"
    => /\ last.calls = 1
       /\ last.res = last.rep
       /\ (last.rep = OkCount(last.arg.len) => last.res.ok /\ last.res.n = last.arg.len)
       /\ (~last.rep.ok \/ last.rep.n <= last.arg.len)

\* C6 witness: a 2-byte payload was written completely to 127.0.0.1.
C6_Witness ==
    /\ last.op = "send"
    /\ last.arg.len = 2
    /\ last.rep = OkCount(2)
    /\ last.res = OkCount(2)
    /\ live(last.s)
    /\ os[as_inner(last.s).fd].peer = "127.0.0.1"

\* C7: connect gives a socket on an open handle exactly when the platform
\* socket was created; when the OS refuses (no permission, unsupported
\* family) it returns that error after one attempt and no socket exists.
\* No socket is ever without an open handle.
C7_ConnectSocketOrError ==
    /\ last.op = "connect"
       => /\ last.calls = 1
          /\ last.res.ok = last.rep.ok
          /\ last.res.ok => live(last.s) /\ as_inner(last.s) = last.rep.inner
          /\ ~last.rep.ok => /\ last.res = last.rep
                             /\ last.res.e \in {"PermissionDenied", "Unsupported"}
                             /\ ~live(last.s)
    /\ \A s \in Sockets :
         live(s) => as_inner(s).fd \in Fds /\ os[as_inner(s).fd].st = "open"

\* C7 witness: connect was refused for lack of permission.
C7_Witness ==
    /\ last.op = "connect"
    /\ last.rep = Err("PermissionDenied")
    /\ last.res = Err("PermissionDenied")
    /\ ~live(last.s)

blocked_with_timeout(t) == thr[t].pc = "recv" /\ thr[t].armed

\* C8: a recv blocked on a socket whose read timeout is Some(d) eventually
\* returns; a recv returns only with data, an I/O error or, when the read
\* timeout was Some(d) at the call, the timeout error; so with read timeout
\* None it returns only on data or error.
C8_RecvTimesOut ==
    /\ \A t \in Threads : blocked_with_timeout(t) ~> (thr[t].pc # "recv")
    /\ [][\A t \in Threads :
            /\ (thr[t].pc = "idle" /\ thr'[t].pc = "recv")
               => (thr'[t].armed <=> read_timeout(thr'[t].s) # OkTimeout(None))
            /\ (thr[t].pc = "recv" /\ thr'[t].pc # "recv")
               => /\ last'.op = "recv"
                  /\ \/ last'.res.ok
                     \/ last'.res = Err("Io")
                     \/ last'.res = Err("WouldBlock") /\ thr[t].armed]_vars

\* C8 witness: a recv returned the timeout error.
C8_Witness ==
    /\ last.op = "recv"
    /\ last.res = Err("WouldBlock")
    /\ last.arg.armed

\* C9 (as amended): send takes the socket exclusively, so no send is in
\* progress on a socket while a recv is in progress on it.
C9_SendExcludesRecv ==
    \A s \in Sockets : \A t, u \in Threads :
        ~(thr[t].pc = "send" /\ thr[t].s = s /\ thr[u].pc = "recv" /\ thr[u].s = s)

\* C9 witness: one thread is inside recv on a socket while the other is idle
\* and cannot start a send on it, though it can start a second recv.
C9_Witness ==
    \E s \in Sockets : \E t, u \in Threads :
        /\ thr[u].pc = "recv" /\ thr[u].s = s
        /\ thr[t].pc = "idle"
        /\ ~ENABLED CallSend(t, s, 0)
        /\ ENABLED CallRecv(t, s)

\* C9 as stated: while one thread is inside recv on a socket, another thread
\* can perform send on it.
C9_Original ==
    \A s \in Sockets : \A t, u \in Threads :
        (thr[u].pc = "recv" /\ thr[u].s = s /\ thr[t].pc = "idle") => ENABLED CallSend(t, s, 0)

owner(fd) == {s \in Sockets : live(s) /\ as_inner(s).fd = fd}

\* C10: every socket owns one open handle of its own family, every open
\* handle has exactly one owner, a handle is opened once (by a connect that
\* makes its owner) and closed once (when its owner is dropped), and no call
\* changes a socket's handle or a handle's family.
C10_HandleOwnership ==
    /\ [](\A s \in Sockets :
            live(s) => /\ as_inner(s).fd \in Fds
                       /\ os[as_inner(s).fd].st = "open"
                       /\ os[as_inner(s).fd].family = as_inner(s).family)
    /\ [](\A fd \in Fds :
            /\ os[fd].st = "open" => Cardinality(owner(fd)) = 1
            /\ os[fd].closes = (IF os[fd].st = "closed" THEN 1 ELSE 0))
    /\ [][/\ \A s \in Sockets : (live(s) /\ live(s)') => socks'[s] = socks[s]
          /\ \A fd \in Fds :
               /\ (os[fd].st = "open" /\ os'[fd].st = "open")
                  => os'[fd].family = os[fd].family /\ os'[fd].peer = os[fd].peer
               /\ os'[fd].st # os[fd].st
                  => \/ /\ os[fd].st = "unused" /\ os'[fd].st = "open"
                        /\ \E s \in Sockets : ~live(s) /\ owner(fd)' = {s}
                        /\ last'.op = "connect"
                     \/ /\ os[fd].st = "open" /\ os'[fd].st = "closed"
                        /\ \E s \in Sockets : owner(fd) = {s} /\ ~live(s)'
                        /\ last'.op = "drop"]_vars

\* C10 witness: two sockets of different families on two handles, the first
\* of them connected after the second.
C10_Witness ==
    /\ live(1) /\ live(2)
    /\ as_inner(1).fd = 2 /\ as_inner(2).fd = 1
    /\ as_inner(1).family # as_inner(2).family
    /\ last.op = "set_read_timeout"

====
